---- MODULE Spec2Model ----
(***************************************************************************)
(* A model of the hypno-chat-bot task-chain orchestration and output       *)
(* parsing code.                                                            *)
(*                                                                          *)
(* Text is modelled lexically: a string is a sequence of tokens, each token *)
(* a fixed run of characters (a keyword, a word, a digit, a quote, a space, *)
(* a newline).  The regular expressions of the source are translated to    *)
(* matchers over such sequences, with the same search order (leftmost      *)
(* match, greedy / lazy quantifiers) as Python's re module.                 *)
(***************************************************************************)
EXTENDS Integers, Sequences, FiniteSets, TLC

VARIABLES qa, bot, crew1, proc, tmpl, api, cli, conc, load

vars == <<qa, bot, crew1, proc, tmpl, api, cli, conc, load>>

(***************************************************************************)
(* Bounds of the model.                                                     *)
(***************************************************************************)
\* number of pieces (sections, words, newlines) a generated review text has
MaxPieces == 3

\* number of pieces (placeholders, words) a description template has
MaxTemplatePieces == 3

\* number of init_bot threads the API can start
MaxInitThreads == 2

\* number of POST /api/chat requests the API serves
MaxRequests == 2

\* number of lines stdin holds for run_cli
MaxLines == 3

\* number of threads that call process_message on one HypnoCrew
MaxCallers == 2

\* the number of task entries of a tasks.yaml
MaxTasks == 2

(***************************************************************************)
(* Generic helpers on token sequences.                                      *)
(***************************************************************************)
WS == " "
NL == "\n"
QUOTE == "\""
COLON == ":"

Min(S) == CHOOSE x \in S : \A y \in S : x <= y

\* \s of the regular expressions, and the characters str.strip() removes
IsSpace(t) == t \in {WS, NL}

\* \d of the regular expressions
IsDigit(t) == t \in {"0", "1", "2", "3", "4", "5", "6", "7", "8", "9"}

\* the literal lit occurs in text at position i
MatchLit(text, i, lit) ==
    /\ i >= 1
    /\ i + Len(lit) - 1 <= Len(text)
    /\ \A k \in 1..Len(lit) : text[i + k - 1] = lit[k]

\* the position after a greedy \s* that starts at i
SkipSpace(text, i) ==
    Min({j \in i..(Len(text) + 1) :
            /\ \A k \in i..(j - 1) : IsSpace(text[k])
            /\ (j = Len(text) + 1 \/ ~IsSpace(text[j]))})

\* str.strip()
Strip(text) ==
    LET keep == {i \in 1..Len(text) : ~IsSpace(text[i])}
    IN  IF keep = {} THEN <<>>
        ELSE SubSeq(text, Min(keep), CHOOSE m \in keep : \A y \in keep : y <= m)

\* "([^"]+)" at position j: the position of the closing quote, 0 if no match
CloseQuote(text, j) ==
    IF j > Len(text) \/ text[j] # QUOTE THEN 0
    ELSE LET later == {k \in (j + 1)..Len(text) : text[k] = QUOTE}
         IN  IF later = {} \/ Min(later) = j + 1 THEN 0 ELSE Min(later)

(***************************************************************************)
(* HypnoBot1Crew._parse_qa_review                                           *)
(***************************************************************************)
DefaultReview ==
    [modified_response |-> <<>>, safety_level |-> 0,
     modifications |-> <<>>, reasoning |-> <<>>]

\* the keywords of the patterns
LitAfterReview == <<"response", WS, "after review", WS, "is", COLON>>
LitResponseIs == <<"response", WS, "is", COLON>>
LitResponse == <<"response", COLON>>
LitAssistant == <<"The assistant's", WS, "response">>
LitAssessment == <<"Safety Level", WS, "Assessment", COLON>>
LitSafetyLevel == <<"Safety Level", COLON>>
LitModifications == <<"Modifications", COLON>>
LitReasoning == <<"Reasoning", COLON>>

\* lit:\s*"([^"]+)" matches at i
QuotedAfterAt(text, i, lit) ==
    /\ MatchLit(text, i, lit)
    /\ CloseQuote(text, SkipSpace(text, i + Len(lit))) # 0

\* the capture of the leftmost match of lit:\s*"([^"]+)", as findall(...)[0]
QuotedAfterCapture(text, lit) ==
    LET i == Min({p \in 1..Len(text) : QuotedAfterAt(text, p, lit)})
        j == SkipSpace(text, i + Len(lit))
    IN  SubSeq(text, j + 1, CloseQuote(text, j) - 1)

QuotedAfterMatches(text, lit) ==
    \E p \in 1..Len(text) : QuotedAfterAt(text, p, lit)

\* The assistant's response.*?:\s*"([^"]+)": the colons at which the match
\* that starts at i can end its lazy .*? (which does not cross a newline)
AssistantColons(text, i) ==
    {c \in (i + Len(LitAssistant))..Len(text) :
        /\ text[c] = COLON
        /\ \A k \in (i + Len(LitAssistant))..(c - 1) : text[k] # NL
        /\ CloseQuote(text, SkipSpace(text, c + 1)) # 0}

AssistantAt(text, i) ==
    /\ MatchLit(text, i, LitAssistant)
    /\ AssistantColons(text, i) # {}

AssistantMatches(text) == \E p \in 1..Len(text) : AssistantAt(text, p)

AssistantCapture(text) ==
    LET i == Min({p \in 1..Len(text) : AssistantAt(text, p)})
        c == Min(AssistantColons(text, i))
        j == SkipSpace(text, c + 1)
    IN  SubSeq(text, j + 1, CloseQuote(text, j) - 1)

\* \n\s*(?:Safety Level Assessment|Modifications|Reasoning): matches at i
SectionHeaderAt(text, i) ==
    /\ i <= Len(text)
    /\ text[i] = NL
    /\ LET j == SkipSpace(text, i + 1)
       IN  \/ MatchLit(text, j, LitAssessment)
           \/ MatchLit(text, j, LitModifications)
           \/ MatchLit(text, j, LitReasoning)

\* re.split(...)[0].strip()
FirstSection(text) ==
    LET heads == {p \in 1..Len(text) : SectionHeaderAt(text, p)}
    IN  IF heads = {} THEN Strip(text)
        ELSE Strip(SubSeq(text, 1, Min(heads) - 1))

\* the four quoted patterns in their order, then the section fallback
ExtractResponse(text) ==
    LET response_match ==
            IF QuotedAfterMatches(text, LitAfterReview)
                THEN QuotedAfterCapture(text, LitAfterReview)
            ELSE IF QuotedAfterMatches(text, LitResponseIs)
                THEN QuotedAfterCapture(text, LitResponseIs)
            ELSE IF QuotedAfterMatches(text, LitResponse)
                THEN QuotedAfterCapture(text, LitResponse)
            ELSE IF AssistantMatches(text)
                THEN AssistantCapture(text)
            ELSE FirstSection(text)
    IN  response_match

\* lit\s*(\d) matches at i
DigitAfterAt(text, i, lit) ==
    /\ MatchLit(text, i, lit)
    /\ LET j == SkipSpace(text, i + Len(lit))
       IN  j <= Len(text) /\ IsDigit(text[j])

DigitAfterMatches(text, lit) ==
    \E p \in 1..Len(text) : DigitAfterAt(text, p, lit)

\* int() of a one-digit string
IntOfDigit(d) ==
    CASE d = "0" -> 0 [] d = "1" -> 1 [] d = "2" -> 2 [] d = "3" -> 3
      [] d = "4" -> 4 [] d = "5" -> 5 [] d = "6" -> 6 [] d = "7" -> 7
      [] d = "8" -> 8 [] d = "9" -> 9

DigitAfterCapture(text, lit) ==
    LET i == Min({p \in 1..Len(text) : DigitAfterAt(text, p, lit)})
    IN  text[SkipSpace(text, i + Len(lit))]

\* the safety level the review states, the default when it states none
ExtractSafetyLevel(text) ==
    IF DigitAfterMatches(text, LitAssessment)
        THEN IntOfDigit(DigitAfterCapture(text, LitAssessment))
    ELSE IF DigitAfterMatches(text, LitSafetyLevel)
        THEN IntOfDigit(DigitAfterCapture(text, LitSafetyLevel))
    ELSE DefaultReview.safety_level

\* (?:\n\n|\n\s*Reasoning|\Z) matches at e
ModificationsEndAt(text, e) ==
    \/ e = Len(text) + 1
    \/ /\ e <= Len(text)
       /\ text[e] = NL
       /\ \/ (e + 1 <= Len(text) /\ text[e + 1] = NL)
          \/ MatchLit(text, SkipSpace(text, e + 1), <<"Reasoning">>)

\* (?:\n\n|\Z) matches at e
ReasoningEndAt(text, e) ==
    \/ e = Len(text) + 1
    \/ /\ e + 1 <= Len(text)
       /\ text[e] = NL
       /\ text[e + 1] = NL

HasLit(text, lit) == \E p \in 1..Len(text) : MatchLit(text, p, lit)

\* Modifications:(.*?)(?:\n\n|\n\s*Reasoning|\Z), findall(...)[0].strip()
ExtractModifications(text) ==
    IF ~HasLit(text, LitModifications) THEN DefaultReview.modifications
    ELSE LET s == Min({p \in 1..Len(text) : MatchLit(text, p, LitModifications)})
                  + Len(LitModifications)
             e == Min({p \in s..(Len(text) + 1) : ModificationsEndAt(text, p)})
         IN  Strip(SubSeq(text, s, e - 1))

\* Reasoning:(.*?)(?:\n\n|\Z), findall(...)[0].strip()
ExtractReasoning(text) ==
    IF ~HasLit(text, LitReasoning) THEN DefaultReview.reasoning
    ELSE LET s == Min({p \in 1..Len(text) : MatchLit(text, p, LitReasoning)})
                  + Len(LitReasoning)
             e == Min({p \in s..(Len(text) + 1) : ReasoningEndAt(text, p)})
         IN  Strip(SubSeq(text, s, e - 1))

(***************************************************************************)
(* The value handed to _parse_qa_review: None, a str, a CrewOutput with a  *)
(* raw_output or a result attribute, another object (str() gives its text),*)
(* or an object whose __str__ raises.                                       *)
(***************************************************************************)
ReviewKinds == {"None", "str", "raw_output", "result", "object", "unprintable"}

\* a guard that tests for the empty string alone
IsFalsyEmptyOnly(review_text) ==
    review_text.kind = "str" /\ review_text.text = <<>>

\* `not review_text`: None and the empty string are falsy, objects are truthy
IsFalsy(review_text) ==
    \/ review_text.kind = "None"
    \/ (review_text.kind = "str" /\ review_text.text = <<>>)

\* the conversion to a string raises
ConversionRaises(review_text) == review_text.kind = "unprintable"

\* review_text.raw_output, review_text.result or str(review_text)
TextOf(review_text) ==
    IF review_text.kind = "None" THEN <<"None">> ELSE review_text.text

\* the fields extracted from the text of the review
ExtractFields(text) ==
    [modified_response |-> ExtractResponse(text),
     safety_level |-> ExtractSafetyLevel(text),
     modifications |-> ExtractModifications(text),
     reasoning |-> ExtractReasoning(text)]

\* a handler that logs the error and raises it again
ParseErrorReraised(result) == [result |-> result, raised |-> TRUE]

\* except Exception: log the error and return the result built so far
ParseErrorHandler(result) == [result |-> result, raised |-> FALSE]

parse_qa_review(review_text) ==
    IF IsFalsy(review_text) THEN [result |-> DefaultReview, raised |-> FALSE]
    ELSE IF ConversionRaises(review_text) THEN ParseErrorHandler(DefaultReview)
    ELSE [result |-> ExtractFields(TextOf(review_text)), raised |-> FALSE]

(***************************************************************************)
(* Review texts: up to MaxPieces pieces, each a section of a review, a     *)
(* plain word or a newline; pieces on one line are separated by a space.   *)
(***************************************************************************)
PieceAfterReview ==
    <<"The assistant's", WS>> \o LitAfterReview \o <<WS, QUOTE, "R1", QUOTE>>
PieceResponseIs == LitResponseIs \o <<WS, QUOTE, "R2", QUOTE>>
PieceResponse == LitResponse \o <<WS, QUOTE, "R3", QUOTE>>
PieceAssistant == LitAssistant \o <<WS, "was", COLON, WS, QUOTE, "R4", QUOTE>>
PieceWord == <<"text">>
PieceAssessment(d) == LitAssessment \o <<WS, d>>
PieceSafetyLevel(d) == LitSafetyLevel \o <<WS, d>>
PieceModifications == LitModifications \o <<WS, "none">>
PieceReasoning == LitReasoning \o <<WS, "clear">>

Pieces ==
    {PieceAfterReview, PieceResponseIs, PieceResponse, PieceAssistant, PieceWord,
     PieceAssessment("0"), PieceAssessment("9"), PieceSafetyLevel("3"),
     PieceSafetyLevel("9"), PieceSafetyLevel("high"),
     PieceModifications, PieceReasoning, <<NL>>}

Join(text, piece) ==
    IF text = <<>> \/ text[Len(text)] = NL \/ piece = <<NL>>
    THEN text \o piece
    ELSE text \o <<WS>> \o piece

RECURSIVE TextsOf(_)
TextsOf(n) ==
    IF n = 0 THEN {<<>>}
    ELSE LET shorter == TextsOf(n - 1)
         IN  shorter \cup {Join(t, p) : t \in shorter, p \in Pieces}

\* the single-line review of the scenario:
\* The assistant's response after review is: "R1" Safety Level Assessment: 0
\* Modifications: none Reasoning: clear
ScenarioReview ==
    Join(Join(Join(PieceAfterReview, PieceAssessment("0")), PieceModifications),
         PieceReasoning)

\* the same review with its sections in paragraphs, as the test script has it
ParagraphReview ==
    PieceAfterReview \o <<NL, NL>> \o PieceAssessment("0") \o <<NL, NL>>
        \o PieceModifications \o <<NL, NL>> \o PieceReasoning

ReviewTexts == TextsOf(MaxPieces) \cup {ScenarioReview, ParagraphReview}

\* objects are given the one-piece texts
ReviewInputs ==
    {[kind |-> "None", text |-> <<>>], [kind |-> "unprintable", text |-> <<>>]}
    \cup [kind : {"str"}, text : ReviewTexts]
    \cup [kind : {"raw_output", "result", "object"}, text : TextsOf(1)]

(***************************************************************************)
(* The parser applied to one input.                                         *)
(***************************************************************************)
QaIdle == [pc |-> "idle", review_text |-> [kind |-> "None", text |-> <<>>],
           result |-> DefaultReview, raised |-> FALSE]

ParseQaReview ==
    /\ qa.pc = "call"
    /\ LET out == parse_qa_review(qa.review_text)
       IN  qa' = [qa EXCEPT !.pc = "return", !.result = out.result,
                            !.raised = out.raised]
    /\ UNCHANGED <<bot, crew1, proc, tmpl, api, cli, conc, load>>

(***************************************************************************)
(* v2 HypnoBot: _parse_categorization                                       *)
(***************************************************************************)
\* str.upper() on a token
UpperToken(t) ==
    CASE t = "in" -> "IN"
      [] t = "appropriate" -> "APPROPRIATE"
      [] t = "violence" -> "VIOLENCE"
      [] t = "unclear" -> "UNCLEAR"
      [] OTHER -> t

Upper(text) == [i \in 1..Len(text) |-> UpperToken(text[i])]

\* result.strip().split("\n")[0]
FirstLine(text) ==
    LET stripped == Strip(text)
        breaks == {i \in 1..Len(stripped) : stripped[i] = NL}
    IN  IF breaks = {} THEN stripped
        ELSE SubSeq(stripped, 1, Min(breaks) - 1)

\* "\n".join(result.strip().split("\n")[1:])
RestLines(text) ==
    LET stripped == Strip(text)
        breaks == {i \in 1..Len(stripped) : stripped[i] = NL}
    IN  IF breaks = {} THEN <<>>
        ELSE SubSeq(stripped, Min(breaks) + 1, Len(stripped))

\* "APPROPRIATE" in category: the characters of the word occur in the label
\* wherever the token does, also as the tail of INAPPROPRIATE
ContainsAppropriate(category) == HasLit(category, <<"APPROPRIATE">>)

parse_categorization(result) ==
    LET category == Upper(FirstLine(result))
    IN  [is_appropriate |-> ContainsAppropriate(category),
         category |-> category,
         explanation |-> RestLines(result)]

(***************************************************************************)
(* v2 HypnoBot.process_input                                                *)
(***************************************************************************)
MAX_CHARS == 1500

\* how far past MAX_CHARS the longest input of the model goes
MaxOver == 2

\* number of pieces a generated categorization output has
MaxCatPieces == 3

InputLengths == {0, 1} \cup {MAX_CHARS + d : d \in 0..MaxOver}

CatPieces ==
    {<<"APPROPRIATE">>, <<"IN", "APPROPRIATE">>, <<"appropriate">>,
     <<"in", "appropriate">>, <<COLON, WS, "violence">>, <<"unclear">>,
     <<WS>>, <<NL>>}

RECURSIVE CatTextsOf(_)
CatTextsOf(n) ==
    IF n = 0 THEN {<<>>}
    ELSE LET shorter == CatTextsOf(n - 1)
         IN  shorter \cup {t \o p : t \in shorter, p \in CatPieces}

\* what categorization_task.execute returns: a str, or an object that is none
CatOutputs ==
    [kind : {"str"}, text : CatTextsOf(MaxCatPieces)]
    \cup {[kind |-> "object", text |-> <<>>]}

\* what crew.kickoff returns: a str, or an output object
KickoffOutputs == [kind : {"str", "object"}, text : {<<"answer">>}]

\* messages of the exceptions the backend raises
BackendErrors == {"timeout", "rate limit"}

NoReply ==
    [kind |-> "none", category |-> <<>>, explanation |-> <<>>,
     result |-> [kind |-> "unset", text |-> <<>>], note |-> FALSE, error |-> ""]

\* an exception that leaves process_input
ErrorReraised(e) == [NoReply EXCEPT !.kind = "raised", !.error = e]

\* the message of the except branch, built from str(e)
ErrorReply(e) == [NoReply EXCEPT !.kind = "error", !.error = e]

\* the rejection message, built from category and explanation
Refusal(category, explanation) ==
    [NoReply EXCEPT !.kind = "refusal", !.category = category,
                    !.explanation = explanation]

\* user_input[:MAX_CHARS] + "..." when the input is longer than MAX_CHARS
Truncate(length) ==
    IF length > MAX_CHARS
    THEN [len |-> MAX_CHARS + 3, ellipsis |-> TRUE]
    ELSE [len |-> length, ellipsis |-> FALSE]

\* the inputs dict of a kickoff: {'user_input': user_input}
NoInputs == [key |-> "none", value |-> [len |-> 0, ellipsis |-> FALSE]]

KickoffInputs(user_input) == [key |-> "user_input", value |-> user_input]

\* a reply that is the str() of the crew's result
ResultReplyAsText(result, note) ==
    [NoReply EXCEPT !.kind = "result",
                    !.result = [kind |-> "str", text |-> result.text],
                    !.note = note]

\* `return result` (v2 line 157) / `return final_output` (line 110)
ResultReply(result, note) ==
    [NoReply EXCEPT !.kind = "result", !.result = result, !.note = note]

\* a gate that proceeds whatever the label
GateNeverRejects(is_appropriate) == FALSE

\* `if not is_appropriate`
GateRejects(is_appropriate) == ~is_appropriate

BotIdle ==
    [pc |-> "idle", original_length |-> 0,
     user_input |-> [len |-> 0, ellipsis |-> FALSE],
     cat_state |-> "pending",
     categorization_result |-> [kind |-> "unset", text |-> <<>>],
     parsed |-> FALSE, is_appropriate |-> FALSE,
     category |-> <<>>, explanation |-> <<>>,
     cat_executions |-> 0, kickoffs |-> 0, reply |-> NoReply,
     variant |-> "none", kickoff_state |-> "pending",
     kickoff_inputs |-> NoInputs,
     kickoff_result |-> [kind |-> "unset", text |-> <<>>]]

\* lines 131-134
V2Truncate ==
    /\ bot.pc = "start"
    /\ bot' = [bot EXCEPT !.pc = "categorize",
                          !.user_input = Truncate(bot.original_length)]
    /\ UNCHANGED <<qa, crew1, proc, tmpl, api, cli, conc, load>>

\* line 138: the categorization task returns
V2CategorizeReturns ==
    /\ bot.pc = "categorize"
    /\ \E r \in CatOutputs :
          bot' = [bot EXCEPT !.pc = "parse", !.cat_state = "returned",
                             !.categorization_result = r,
                             !.cat_executions = @ + 1]
    /\ UNCHANGED <<qa, crew1, proc, tmpl, api, cli, conc, load>>

\* line 138 raises: lines 158-161
V2CategorizeRaises ==
    /\ bot.pc = "categorize"
    /\ \E e \in BackendErrors :
          bot' = [bot EXCEPT !.pc = "done", !.cat_state = "raised",
                             !.cat_executions = @ + 1,
                             !.reply = ErrorReply(e)]
    /\ UNCHANGED <<qa, crew1, proc, tmpl, api, cli, conc, load>>

\* lines 141-146; a result without .strip() raises AttributeError
V2ParseCategorization ==
    /\ bot.pc = "parse"
    /\ IF bot.categorization_result.kind # "str"
       THEN bot' = [bot EXCEPT !.pc = "done",
                               !.reply = ErrorReply("AttributeError")]
       ELSE LET p == parse_categorization(bot.categorization_result.text)
            IN  bot' = [bot EXCEPT
                    !.parsed = TRUE,
                    !.is_appropriate = p.is_appropriate,
                    !.category = p.category,
                    !.explanation = p.explanation,
                    !.pc = IF GateRejects(p.is_appropriate)
                           THEN "done" ELSE "kickoff",
                    !.reply = IF GateRejects(p.is_appropriate)
                              THEN Refusal(p.category, p.explanation)
                              ELSE @]
    /\ UNCHANGED <<qa, crew1, proc, tmpl, api, cli, conc, load>>

\* lines 150-157: the crew runs its five tasks, the categorization task first;
\* `result += note` raises TypeError on a result that is no str
V2KickoffReturns ==
    /\ bot.pc = "kickoff"
    /\ \E r \in KickoffOutputs :
          bot' = [bot EXCEPT
              !.pc = "done",
              !.kickoffs = @ + 1,
              !.cat_executions = @ + 1,
              !.kickoff_state = "returned",
              !.kickoff_inputs = KickoffInputs(bot.user_input),
              !.kickoff_result = r,
              !.reply =
                  IF bot.original_length > MAX_CHARS /\ r.kind # "str"
                  THEN ErrorReply("TypeError")
                  ELSE ResultReply(r, bot.original_length > MAX_CHARS)]
    /\ UNCHANGED <<qa, crew1, proc, tmpl, api, cli, conc, load>>

\* line 150 raises: lines 158-161
V2KickoffRaises ==
    /\ bot.pc = "kickoff"
    /\ \E e \in BackendErrors :
          bot' = [bot EXCEPT !.pc = "done", !.kickoffs = @ + 1,
                             !.cat_executions = @ + 1,
                             !.kickoff_state = "raised",
                             !.kickoff_inputs = KickoffInputs(bot.user_input),
                             !.reply = ErrorReply(e)]
    /\ UNCHANGED <<qa, crew1, proc, tmpl, api, cli, conc, load>>

(***************************************************************************)
(* HypnoBot.process_input of hypnobot/hypnobot.py (the variant built from   *)
(* the YAML configuration).  __init__ (lines 24-35) leaves an Agent in      *)
(* categorization_task.agent, so the check of line 73 passes.               *)
(***************************************************************************)
\* lines 104-110: the crew returns, and its output is returned as it is
CfgKickoffReturns ==
    /\ bot.pc = "cfg_kickoff"
    /\ \E r \in KickoffOutputs :
          bot' = [bot EXCEPT
              !.pc = "done",
              !.kickoffs = @ + 1,
              !.kickoff_state = "returned",
              !.kickoff_inputs = KickoffInputs(bot.user_input),
              !.kickoff_result = r,
              !.reply = ResultReply(r, FALSE)]
    /\ UNCHANGED <<qa, crew1, proc, tmpl, api, cli, conc, load>>

\* line 109 raises: lines 112-114
CfgKickoffRaises ==
    /\ bot.pc = "cfg_kickoff"
    /\ \E e \in BackendErrors :
          bot' = [bot EXCEPT
              !.pc = "done",
              !.kickoffs = @ + 1,
              !.kickoff_state = "raised",
              !.kickoff_inputs = KickoffInputs(bot.user_input),
              !.reply = ErrorReply(e)]
    /\ UNCHANGED <<qa, crew1, proc, tmpl, api, cli, conc, load>>

(***************************************************************************)
(* hypnobot1: calculate_cost and HypnoBot1Crew._manually_track_token_usage  *)
(***************************************************************************)
\* model_pricing, in cents per million tokens; a model that is not in the
\* table is priced as gpt-4o-mini
PricingOf(model_name) ==
    CASE model_name = "gpt-4" -> [input |-> 3000, output |-> 6000]
      [] model_name = "gpt-4o" -> [input |-> 250, output |-> 1000]
      [] model_name = "gpt-4o-mini" -> [input |-> 15, output |-> 60]
      [] OTHER -> [input |-> 15, output |-> 60]

\* costs in units of 10^-8 dollar: (tokens / 1000000) * dollars per million
calculate_cost(token_usage, model_name) ==
    LET pricing == PricingOf(model_name)
        input_cost == token_usage.prompt_tokens * pricing.input
        output_cost == token_usage.completion_tokens * pricing.output
    IN  [total_cost |-> input_cost + output_cost,
         input_cost |-> input_cost,
         output_cost |-> output_cost,
         model |-> model_name,
         tokens |-> token_usage.total_tokens]

NoUsage ==
    [total_tokens |-> 0, prompt_tokens |-> 0, completion_tokens |-> 0,
     successful_requests |-> 0]

\* what crew.usage_metrics reports after a kickoff: nothing, or real counts
UsageMetrics ==
    {NoUsage,
     [total_tokens |-> 1500, prompt_tokens |-> 1200, completion_tokens |-> 300,
      successful_requests |-> 1]}

\* the reported counts when there are any, else 3000 + 1000 tokens per task
manually_track_token_usage(metrics, num_tasks) ==
    IF metrics.total_tokens > 0 \/ metrics.prompt_tokens > 0 THEN metrics
    ELSE [total_tokens |-> num_tasks * 3000 + num_tasks * 1000,
          prompt_tokens |-> num_tasks * 3000,
          completion_tokens |-> num_tasks * 1000,
          successful_requests |-> num_tasks]

(***************************************************************************)
(* HypnoBot1Crew._create_tasks                                              *)
(***************************************************************************)
NoTask == [present |-> FALSE, placeholders |-> {}, agent_known |-> FALSE]

\* a task of tasks.yaml: the placeholders of its description, and whether
\* its agent is among the agents that were created
InquiryConfigs ==
    {NoTask,
     [present |-> TRUE, placeholders |-> {"user_message"}, agent_known |-> TRUE],
     [present |-> TRUE, placeholders |-> {"user_message", "topic"},
      agent_known |-> TRUE],
     [present |-> TRUE, placeholders |-> {"user_message"}, agent_known |-> FALSE]}

ReviewConfigs ==
    {NoTask,
     [present |-> TRUE, placeholders |-> {"hypnotherapy_response"},
      agent_known |-> TRUE],
     [present |-> TRUE, placeholders |-> {"hypnotherapy_response", "topic"},
      agent_known |-> TRUE],
     [present |-> TRUE, placeholders |-> {"hypnotherapy_response"},
      agent_known |-> FALSE]}

\* description.format(**context) raises KeyError on a placeholder that is
\* not a key of the context
FormatRaises(task, context) == ~(task.placeholders \subseteq context)

\* the tasks built for a context (a set of keys), or the KeyError
create_tasks(tasks_config, context) ==
    LET inquiry == tasks_config.hypnotherapy_inquiry
        review == tasks_config.safety_review
        with_review == review.present /\ "hypnotherapy_response" \in context
    IN  IF inquiry.present /\ FormatRaises(inquiry, context)
            THEN [raised |-> TRUE, tasks |-> <<>>]
        ELSE IF with_review /\ FormatRaises(review, context)
            THEN [raised |-> TRUE, tasks |-> <<>>]
        ELSE [raised |-> FALSE,
              tasks |->
                (IF inquiry.present /\ inquiry.agent_known
                    THEN <<"hypnotherapy_inquiry">> ELSE <<>>)
                \o (IF with_review /\ review.agent_known
                    THEN <<"safety_review">> ELSE <<>>)]

(***************************************************************************)
(* HypnoBot1Crew.process_message                                            *)
(***************************************************************************)
Apology ==
    <<"I apologize, but I encountered an issue processing your message. Please try again.">>

NoCost ==
    [total_cost |-> 0, input_cost |-> 0, output_cost |-> 0, model |-> "",
     tokens |-> 0]

NoMetadata ==
    [keys |-> {}, error |-> "", review_result |-> <<>>, modifications |-> <<>>,
     reasoning |-> <<>>, inquiry_token_usage |-> NoUsage]

NoResult1 ==
    [original_response |-> <<>>, final_response |-> <<>>, safety_level |-> 0,
     token_usage |-> NoUsage, cost_info |-> NoCost, metadata |-> NoMetadata]

\* lines 495-504: the result of the except branch
Fallback1(e) ==
    [NoResult1 EXCEPT !.final_response = Apology, !.safety_level = 2,
                      !.metadata = [NoMetadata EXCEPT !.keys = {"error"},
                                                      !.error = e]]

\* what the inquiry crew returns
InquiryOutputs ==
    [kind : {"str", "raw_output", "object"}, text : {<<>>, <<"answer">>}]

\* what the full crew returns: the review
CrewReviewOutputs ==
    {[kind |-> "None", text |-> <<>>]}
    \cup [kind : {"str", "raw_output"},
          text : TextsOf(1) \cup {ScenarioReview, ParagraphReview, <<WS>>}]

AgentModels == {"gpt-4", "my-model"}

Crew1Idle ==
    [pc |-> "idle",
     tasks_config |-> [hypnotherapy_inquiry |-> NoTask, safety_review |-> NoTask],
     inquiry_model |-> "gpt-4",
     context |-> {},
     inquiry_text |-> <<>>,
     inquiry_token_usage |-> NoUsage,
     review |-> [kind |-> "None", text |-> <<>>],
     kickoffs |-> 0, inquiry_runs |-> 0, review_runs |-> 0,
     raised_at |-> "none",
     result |-> NoResult1]

\* lines 376-389: the first _create_tasks
Crew1CreateInquiry ==
    /\ crew1.pc = "start"
    /\ LET context == {"user_message", "user_name"}
           made == create_tasks(crew1.tasks_config, context)
       IN  IF made.raised
           THEN crew1' = [crew1 EXCEPT !.pc = "done", !.context = context,
                              !.raised_at = "create_tasks",
                              !.result = Fallback1("KeyError")]
           ELSE IF made.tasks = <<>>
           THEN crew1' = [crew1 EXCEPT !.pc = "done", !.context = context,
                              !.raised_at = "create_tasks",
                              !.result = Fallback1("Failed to create inquiry task")]
           ELSE crew1' = [crew1 EXCEPT !.pc = "inquiry", !.context = context]
    /\ UNCHANGED <<qa, bot, proc, tmpl, api, cli, conc, load>>

\* lines 395-422: the inquiry crew returns
Crew1InquiryReturns ==
    /\ crew1.pc = "inquiry"
    /\ \E out \in InquiryOutputs, metrics \in UsageMetrics :
          crew1' = [crew1 EXCEPT
              !.pc = "create_all",
              !.kickoffs = @ + 1,
              !.inquiry_runs = @ + 1,
              !.inquiry_token_usage = manually_track_token_usage(metrics, 1),
              !.inquiry_text = out.text,
              !.context = @ \cup {"hypnotherapy_response"}]
    /\ UNCHANGED <<qa, bot, proc, tmpl, api, cli, conc, load>>

\* line 403 raises
Crew1InquiryRaises ==
    /\ crew1.pc = "inquiry"
    /\ \E e \in BackendErrors :
          crew1' = [crew1 EXCEPT !.pc = "done", !.kickoffs = @ + 1,
                                 !.inquiry_runs = @ + 1,
                                 !.raised_at = "inquiry_kickoff",
                                 !.result = Fallback1(e)]
    /\ UNCHANGED <<qa, bot, proc, tmpl, api, cli, conc, load>>

\* lines 425-442: the second _create_tasks; without a review task the
\* inquiry result is returned alone
Crew1CreateAll ==
    /\ crew1.pc = "create_all"
    /\ LET made == create_tasks(crew1.tasks_config, crew1.context)
       IN  IF made.raised
           THEN crew1' = [crew1 EXCEPT !.pc = "done",
                              !.raised_at = "create_tasks",
                              !.result = Fallback1("KeyError")]
           ELSE IF Len(made.tasks) < 2
           THEN crew1' = [crew1 EXCEPT !.pc = "done",
                    !.result =
                        [original_response |-> crew1.inquiry_text,
                         final_response |-> crew1.inquiry_text,
                         safety_level |-> 0,
                         token_usage |-> crew1.inquiry_token_usage,
                         cost_info |-> calculate_cost(crew1.inquiry_token_usage,
                                                      crew1.inquiry_model),
                         metadata |-> [NoMetadata EXCEPT
                                          !.keys = {"review_skipped"}]]]
           ELSE crew1' = [crew1 EXCEPT !.pc = "full"]
    /\ UNCHANGED <<qa, bot, proc, tmpl, api, cli, conc, load>>

\* lines 445-493: the crew of both tasks returns; the review is parsed and
\* the result assembled
Crew1FullReturns ==
    /\ crew1.pc = "full"
    /\ \E out \in CrewReviewOutputs, metrics \in UsageMetrics :
          LET token_usage == manually_track_token_usage(metrics, 2)
              parsed_review == parse_qa_review(out).result
              final_response ==
                  IF Strip(parsed_review.modified_response) = <<>>
                  THEN crew1.inquiry_text
                  ELSE parsed_review.modified_response
          IN  crew1' = [crew1 EXCEPT
                  !.pc = "done",
                  !.kickoffs = @ + 1,
                  !.inquiry_runs = @ + 1,
                  !.review_runs = @ + 1,
                  !.review = out,
                  !.result =
                      [original_response |-> crew1.inquiry_text,
                       final_response |-> final_response,
                       safety_level |-> parsed_review.safety_level,
                       token_usage |-> token_usage,
                       cost_info |-> calculate_cost(token_usage,
                                                    crew1.inquiry_model),
                       metadata |->
                          [keys |-> {"review_result", "modifications",
                                     "reasoning", "inquiry_token_usage"},
                           error |-> "",
                           review_result |-> TextOf(out),
                           modifications |-> parsed_review.modifications,
                           reasoning |-> parsed_review.reasoning,
                           inquiry_token_usage |-> crew1.inquiry_token_usage]]]
    /\ UNCHANGED <<qa, bot, proc, tmpl, api, cli, conc, load>>

\* line 454 raises
Crew1FullRaises ==
    /\ crew1.pc = "full"
    /\ \E e \in BackendErrors :
          crew1' = [crew1 EXCEPT !.pc = "done", !.kickoffs = @ + 1,
                                 !.inquiry_runs = @ + 1,
                                 !.raised_at = "full_kickoff",
                                 !.result = Fallback1(e)]
    /\ UNCHANGED <<qa, bot, proc, tmpl, api, cli, conc, load>>

NextCrew1 ==
    \/ Crew1CreateInquiry
    \/ Crew1InquiryReturns
    \/ Crew1InquiryRaises
    \/ Crew1CreateAll
    \/ Crew1FullReturns
    \/ Crew1FullRaises

(***************************************************************************)
(* hypnobot: HypnoChatProcess, HypnoCrew and main.process_message           *)
(*                                                                          *)
(* A value that may be a str or another object is a record                  *)
(* [kind, text, level]: kind "str" with its text, kind "object" with the    *)
(* text str() gives, kind "dict" with the text of its final_response entry  *)
(* and its safety_level entry (has_final / has_level: the key is present).  *)
(***************************************************************************)
StrValue(text) ==
    [kind |-> "str", text |-> text, has_final |-> FALSE, has_level |-> FALSE,
     level |-> 0]

EmptyApology ==
    <<"I apologize, but I couldn't generate a response. Please try again.">>

NoProcMetadata == [keys |-> {}, error |-> "", review_result |-> <<>>]

NoProcResult ==
    [original_response |-> StrValue(<<>>), final_response |-> StrValue(<<>>),
     safety_level |-> 0, metadata |-> NoProcMetadata]

\* the result a failed request gets with a safety level of 0
FallbackLevelZero(e) ==
    [NoProcResult EXCEPT
        !.final_response = StrValue(Apology),
        !.safety_level = 0,
        !.metadata = [NoProcMetadata EXCEPT !.keys = {"error"}, !.error = e]]

\* the result of the outer except branches (processes.py 157-164,
\* hypno_crew.py 104-111, main.py 98-105)
Fallback(e) ==
    [NoProcResult EXCEPT
        !.final_response = StrValue(Apology),
        !.safety_level = 2,
        !.metadata = [NoProcMetadata EXCEPT !.keys = {"error"}, !.error = e]]

\* processes.py 105-111: no chat result
EmptyChatResult ==
    [NoProcResult EXCEPT
        !.final_response = StrValue(EmptyApology),
        !.safety_level = 2,
        !.metadata = [NoProcMetadata EXCEPT !.keys = {"error"},
                                            !.error = "Empty chat result"]]

\* the review failure treated as the outer except branch treats a failure
ReviewFailedAsFallback(chat_result, e) == Fallback(e)

\* processes.py 147-155: the review failed; the error entry is
\* "Review error: " followed by str(e), for which e stands
ReviewFailedResult(chat_result, e) ==
    [original_response |-> StrValue(chat_result),
     final_response |-> StrValue(chat_result),
     safety_level |-> 1,
     metadata |-> [NoProcMetadata EXCEPT !.keys = {"error"}, !.error = e]]

\* str.lower() on a word of a review
LowerToken(t) ==
    CASE t = "Unsafe" -> "unsafe"
      [] t = "Caution" -> "caution"
      [] OTHER -> t

\* w in review_result.lower()
MentionsWord(text, w) == \E i \in 1..Len(text) : LowerToken(text[i]) = w

\* processes.py 132-137
SafetyOfReview(review_result) ==
    IF MentionsWord(review_result, "unsafe") THEN 2
    ELSE IF MentionsWord(review_result, "caution") THEN 1
    ELSE 0

\* what the chat crew returns, and _extract_text_from_crew_output of it
ChatOutputs ==
    [kind : {"str", "raw_output"}, text : {<<>>, <<WS>>, <<"answer">>}]

\* what the review crew of HypnoChatProcess returns
ProcessReviewOutputs ==
    [kind : {"str", "raw_output"},
     text : {<<"safe">>, <<"Unsafe">>, <<"unsafe">>, <<"Caution">>,
             <<"caution", WS, "unsafe">>, <<>>}]

\* what the review kickoff of HypnoCrew returns: a text, or a dict with or
\* without the final_response and safety_level keys
CrewReviewValues ==
    {StrValue(<<"reviewed">>)}
    \cup [kind : {"dict"}, text : {<<"reviewed">>}, has_final : BOOLEAN,
          has_level : BOOLEAN, level : {3}]

\* hypno_crew.py 85-95
ReviewedResponse(review_result) ==
    IF review_result.kind = "dict" /\ review_result.has_final
    THEN StrValue(review_result.text)
    ELSE review_result

ReviewedLevel(review_result) ==
    IF review_result.kind = "dict" /\ review_result.has_level
    THEN review_result.level
    ELSE 0

\* a test that takes only the empty string for an empty chat result
IsEmptyChatNoStrip(chat_result) == chat_result = <<>>

\* processes.py 105: not chat_result or len(chat_result.strip()) == 0
IsEmptyChat(chat_result) == chat_result = <<>> \/ Strip(chat_result) = <<>>

ProcIdle ==
    [pc |-> "idle", entry |-> "none", processor |-> "none",
     chat_config_ok |-> TRUE,
     chat_result |-> StrValue(<<>>),
     crew_tasks |-> <<>>,
     kickoffs |-> 0,
     raised_at |-> "none",
     result |-> NoProcResult]

\* main.py 84-90, 98-105: the processor is constructed, or its constructor
\* raises
MainConstruct ==
    /\ proc.pc = "construct"
    /\ \/ proc' = [proc EXCEPT !.pc = "chat_task"]
       \/ \E e \in {"config error"} :
             proc' = [proc EXCEPT !.pc = "done", !.raised_at = "construct", !.result = Fallback(e)]
    /\ UNCHANGED <<qa, bot, crew1, tmpl, api, cli, conc, load>>

\* processes.py 97 (create_process): ChatTask.create_task formats the
\* description, which raises KeyError on an unknown placeholder
ProcessCreateChat ==
    /\ proc.pc = "chat_task"
    /\ proc.processor = "HypnoChatProcess"
    /\ IF proc.chat_config_ok
       THEN proc' = [proc EXCEPT !.pc = "chat_kickoff"]
       ELSE proc' = [proc EXCEPT !.pc = "done", !.raised_at = "chat_task",
                                 !.result = Fallback("KeyError")]
    /\ UNCHANGED <<qa, bot, crew1, tmpl, api, cli, conc, load>>

\* processes.py 98-111
ProcessChatReturns ==
    /\ proc.pc = "chat_kickoff"
    /\ proc.processor = "HypnoChatProcess"
    /\ \E out \in ChatOutputs :
          IF IsEmptyChat(out.text)
          THEN proc' = [proc EXCEPT !.pc = "done", !.kickoffs = @ + 1,
                                    !.chat_result = StrValue(out.text),
                                    !.result = EmptyChatResult]
          ELSE proc' = [proc EXCEPT !.pc = "review_task", !.kickoffs = @ + 1,
                                    !.chat_result = StrValue(out.text)]
    /\ UNCHANGED <<qa, bot, crew1, tmpl, api, cli, conc, load>>

\* processes.py 98 raises
ProcessChatRaises ==
    /\ proc.pc = "chat_kickoff"
    /\ proc.processor = "HypnoChatProcess"
    /\ \E e \in BackendErrors :
          proc' = [proc EXCEPT !.pc = "done", !.kickoffs = @ + 1,
                               !.raised_at = "chat_kickoff",
                               !.result = Fallback(e)]
    /\ UNCHANGED <<qa, bot, crew1, tmpl, api, cli, conc, load>>

\* processes.py 116-124: the review task is created, or its creation raises
ProcessCreateReview ==
    /\ proc.pc = "review_task"
    /\ proc.processor = "HypnoChatProcess"
    /\ \/ proc' = [proc EXCEPT !.pc = "review_kickoff"]
       \/ proc' = [proc EXCEPT
                      !.pc = "done", !.raised_at = "review_task",
                      !.result = ReviewFailedResult(proc.chat_result.text,
                                                    "KeyError")]
    /\ UNCHANGED <<qa, bot, crew1, tmpl, api, cli, conc, load>>

\* processes.py 127-145
ProcessReviewReturns ==
    /\ proc.pc = "review_kickoff"
    /\ proc.processor = "HypnoChatProcess"
    /\ \E out \in ProcessReviewOutputs :
          proc' = [proc EXCEPT
              !.pc = "done", !.kickoffs = @ + 1,
              !.result =
                  [original_response |-> proc.chat_result,
                   final_response |-> proc.chat_result,
                   safety_level |-> SafetyOfReview(out.text),
                   metadata |-> [NoProcMetadata EXCEPT
                                    !.keys = {"review_result"},
                                    !.review_result = out.text]]]
    /\ UNCHANGED <<qa, bot, crew1, tmpl, api, cli, conc, load>>

\* processes.py 127 raises: 147-155
ProcessReviewRaises ==
    /\ proc.pc = "review_kickoff"
    /\ proc.processor = "HypnoChatProcess"
    /\ \E e \in BackendErrors :
          proc' = [proc EXCEPT
              !.pc = "done", !.kickoffs = @ + 1,
              !.raised_at = "review_kickoff",
              !.result = ReviewFailedResult(proc.chat_result.text, e)]
    /\ UNCHANGED <<qa, bot, crew1, tmpl, api, cli, conc, load>>

\* hypno_crew.py 65-71
CrewCreateChat ==
    /\ proc.pc = "chat_task"
    /\ proc.processor = "HypnoCrew"
    /\ IF proc.chat_config_ok
       THEN proc' = [proc EXCEPT !.pc = "chat_kickoff",
                                 !.crew_tasks = <<"chat_task">>]
       ELSE proc' = [proc EXCEPT !.pc = "done", !.raised_at = "chat_task",
                                 !.result = Fallback("KeyError")]
    /\ UNCHANGED <<qa, bot, crew1, tmpl, api, cli, conc, load>>

\* hypno_crew.py 72: the crew output is kept as it is
CrewChatReturns ==
    /\ proc.pc = "chat_kickoff"
    /\ proc.processor = "HypnoCrew"
    /\ \E out \in ChatOutputs :
          proc' = [proc EXCEPT
              !.pc = "review_task", !.kickoffs = @ + 1,
              !.chat_result =
                  [StrValue(out.text) EXCEPT
                      !.kind = IF out.kind = "str" THEN "str" ELSE "object"]]
    /\ UNCHANGED <<qa, bot, crew1, tmpl, api, cli, conc, load>>

\* hypno_crew.py 72 raises: 104-111
CrewChatRaises ==
    /\ proc.pc = "chat_kickoff"
    /\ proc.processor = "HypnoCrew"
    /\ \E e \in BackendErrors :
          proc' = [proc EXCEPT !.pc = "done", !.kickoffs = @ + 1,
                               !.raised_at = "chat_kickoff",
                               !.result = Fallback(e)]
    /\ UNCHANGED <<qa, bot, crew1, tmpl, api, cli, conc, load>>

\* hypno_crew.py 77-80: the review task is created, or its creation raises
CrewCreateReview ==
    /\ proc.pc = "review_task"
    /\ proc.processor = "HypnoCrew"
    /\ \/ proc' = [proc EXCEPT !.pc = "review_kickoff",
                               !.crew_tasks = <<"review_task">>]
       \/ proc' = [proc EXCEPT !.pc = "done", !.raised_at = "review_task",
                               !.result = Fallback("KeyError")]
    /\ UNCHANGED <<qa, bot, crew1, tmpl, api, cli, conc, load>>

\* hypno_crew.py 81-102
CrewReviewReturns ==
    /\ proc.pc = "review_kickoff"
    /\ proc.processor = "HypnoCrew"
    /\ \E review_result \in CrewReviewValues :
          proc' = [proc EXCEPT
              !.pc = "done", !.kickoffs = @ + 1,
              !.result =
                  [original_response |-> proc.chat_result,
                   final_response |-> ReviewedResponse(review_result),
                   safety_level |-> ReviewedLevel(review_result),
                   metadata |-> NoProcMetadata]]
    /\ UNCHANGED <<qa, bot, crew1, tmpl, api, cli, conc, load>>

\* hypno_crew.py 81 raises: 104-111
CrewReviewRaises ==
    /\ proc.pc = "review_kickoff"
    /\ proc.processor = "HypnoCrew"
    /\ \E e \in BackendErrors :
          proc' = [proc EXCEPT !.pc = "done", !.kickoffs = @ + 1,
                               !.raised_at = "review_kickoff",
                               !.result = Fallback(e)]
    /\ UNCHANGED <<qa, bot, crew1, tmpl, api, cli, conc, load>>

NextProc ==
    \/ MainConstruct
    \/ ProcessCreateChat
    \/ ProcessChatReturns
    \/ ProcessChatRaises
    \/ ProcessCreateReview
    \/ ProcessReviewReturns
    \/ ProcessReviewRaises
    \/ CrewCreateChat
    \/ CrewChatReturns
    \/ CrewChatRaises
    \/ CrewCreateReview
    \/ CrewReviewReturns
    \/ CrewReviewRaises

(***************************************************************************)
(* Rendering of task descriptions: HypnoBot.format_task_template (v2) and   *)
(* build_task (str.format).                                                 *)
(***************************************************************************)
LB == "{"
RB == "}"

\* the names a placeholder or an input can have; "name" is never an input
FieldNames == {"user_input", "task_1", "name"}

\* "{" + key + "}"
Placeholder(key) == <<LB, key, RB>>

\* str.replace(old, new): the occurrences of old, leftmost first and not
\* overlapping, are replaced; the text put in is not searched again
RECURSIVE Replace(_, _, _)
Replace(text, old, new) ==
    IF text = <<>> THEN <<>>
    ELSE IF MatchLit(text, 1, old)
         THEN new \o Replace(SubSeq(text, Len(old) + 1, Len(text)), old, new)
         ELSE <<text[1]>> \o Replace(Tail(text), old, new)

\* lines 194-196: one replace per item of inputs, in the order of the dict,
\* each on the text the former left
RECURSIVE format_task_template(_, _)
format_task_template(task_description, inputs) ==
    IF inputs = <<>> THEN task_description
    ELSE format_task_template(
             Replace(task_description, Placeholder(inputs[1].key),
                     inputs[1].value),
             Tail(inputs))

\* the keys of a dict given as the sequence of its items
KeysOf(inputs) == {inputs[i].key : i \in 1..Len(inputs)}

ValueOf(inputs, key) ==
    inputs[CHOOSE i \in 1..Len(inputs) : inputs[i].key = key].value

\* str.format(**kwargs): "{{" and "}}" are braces, "{key}" is the str of
\* kwargs[key] (KeyError without the key), a single brace is a ValueError;
\* the text put in is not looked at again
\* the text formatted so far goes before the text of the rest, unless
\* formatting the rest raised
Prepend(done, rest) ==
    IF rest.raised = "none" THEN [rest EXCEPT !.text = done \o @] ELSE rest

RECURSIVE Format(_, _)
Format(text, kwargs) ==
    IF text = <<>> THEN [raised |-> "none", text |-> <<>>]
    ELSE IF text[1] \in {LB, RB} /\ Len(text) >= 2 /\ text[2] = text[1]
    THEN Prepend(<<text[1]>>, Format(SubSeq(text, 3, Len(text)), kwargs))
    ELSE IF text[1] = LB /\ Len(text) >= 3 /\ text[2] \in FieldNames
                         /\ text[3] = RB
    THEN IF text[2] \in KeysOf(kwargs)
         THEN Prepend(ValueOf(kwargs, text[2]),
                      Format(SubSeq(text, 4, Len(text)), kwargs))
         ELSE [raised |-> "KeyError", text |-> <<>>]
    ELSE IF text[1] \in {LB, RB}
    THEN [raised |-> "ValueError", text |-> <<>>]
    ELSE Prepend(<<text[1]>>, Format(Tail(text), kwargs))

\* the pieces a description template is written with
TemplatePieces ==
    {Placeholder(k) : k \in FieldNames} \cup {<<"Process">>, <<WS>>}

RECURSIVE TemplatesOf(_)
TemplatesOf(n) ==
    IF n = 0 THEN {<<>>}
    ELSE LET shorter == TemplatesOf(n - 1)
         IN  shorter \cup {p \o t : p \in TemplatePieces, t \in shorter}

Templates == TemplatesOf(MaxTemplatePieces)

\* the values of the inputs: a plain text, or a text that reads like a
\* placeholder (a user can type one)
InputValues ==
    {<<"hi">>, Placeholder("task_1"), Placeholder("user_input")}

\* the dicts of inputs, as item sequences in insertion order
InputDicts ==
    {<<>>}
    \cup {<<[key |-> k, value |-> v]>> :
              k \in {"user_input", "task_1"}, v \in InputValues}
    \cup {<<[key |-> ks[1], value |-> v1], [key |-> ks[2], value |-> v2]>> :
              ks \in {<<"user_input", "task_1">>, <<"task_1", "user_input">>},
              v1 \in InputValues, v2 \in InputValues}

TmplIdle ==
    [pc |-> "idle", renderer |-> "none", template |-> <<>>,
     inputs |-> <<>>, rendered |-> <<>>, raised |-> "none"]

\* v2/hypnobot.py 182-198
FormatTaskTemplate ==
    /\ tmpl.pc = "call"
    /\ tmpl.renderer = "format_task_template"
    /\ tmpl' = [tmpl EXCEPT
                   !.pc = "return",
                   !.rendered = format_task_template(tmpl.template,
                                                     tmpl.inputs)]
    /\ UNCHANGED <<qa, bot, crew1, proc, api, cli, conc, load>>

\* task_factory.py 5-11: the Task is built from the formatted description,
\* or the exception of str.format leaves build_task
BuildTask ==
    /\ tmpl.pc = "call"
    /\ tmpl.renderer = "build_task"
    /\ LET f == Format(tmpl.template, tmpl.inputs)
       IN  tmpl' = [tmpl EXCEPT !.pc = "return",
                                !.rendered = f.text,
                                !.raised = f.raised]
    /\ UNCHANGED <<qa, bot, crew1, proc, api, cli, conc, load>>

(***************************************************************************)
(* hypnobot/api.py: the init_bot threads and the POST /api/chat handler.    *)
(***************************************************************************)
\* what os.getenv("OPENAI_API_KEY") gives: None, "", the value of
\* .env.example, or a key
KeyValues == {"unset", "empty", "placeholder", "valid"}

\* `not os.getenv("OPENAI_API_KEY")`
KeyMissing(key) == key \in {"unset", "empty"}

InitThreads == 1..MaxInitThreads

\* the user_input fields of the request bodies
RequestBodies == {<<"hi">>, <<WS, "hi", WS>>, <<WS>>}

\* what bot.process_input returns to the handler: a str, or the output
\* object of the crew
ProcessInputValues == [kind : {"str", "object"}, text : {<<"answer">>}]

NoRequest ==
    [pc |-> "idle", user_input |-> <<>>, status |-> 0, detail |-> "",
     response |-> [kind |-> "unset", text |-> <<>>],
     calls |-> <<>>, returned |-> [kind |-> "unset", text |-> <<>>],
     raised |-> "", bot_seen |-> FALSE]

ApiIdle ==
    [key |-> "unset", imported |-> FALSE, bot |-> "None",
     initialization_error |-> "", is_initializing |-> FALSE,
     thread |-> [t \in InitThreads |-> "unstarted"],
     constructions |-> 0, assignments |-> 0, served |-> 0,
     executed_with |-> {}, req |-> NoRequest]

\* threading.Thread(target=init_bot).start(), while a thread is left
Spawn(thread) ==
    IF \E t \in InitThreads : thread[t] = "unstarted"
    THEN [thread EXCEPT
             ![Min({t \in InitThreads : thread[t] = "unstarted"})] = "start"]
    ELSE thread

\* a test that looks at bot alone
AlreadyInitializedBotOnly(module) == module.bot # "None"

\* line 77: bot is not None or is_initializing
AlreadyInitialized(module) == module.bot # "None" \/ module.is_initializing

\* lines 76-79: the first block under initialization_lock
InitBotEnter(t) ==
    /\ api.thread[t] = "start"
    /\ IF AlreadyInitialized(api)
       THEN api' = [api EXCEPT !.thread[t] = "done"]
       ELSE api' = [api EXCEPT !.thread[t] = "check_key",
                               !.is_initializing = TRUE]
    /\ UNCHANGED <<qa, bot, crew1, proc, tmpl, cli, conc, load>>

\* lines 83-88, and 93-96 for the ValueError
InitBotCheckKey(t) ==
    /\ api.thread[t] = "check_key"
    /\ IF KeyMissing(api.key)
       THEN api' = [api EXCEPT
                       !.thread[t] = "finally",
                       !.initialization_error = "OPENAI_API_KEY not found"]
       ELSE api' = [api EXCEPT !.thread[t] = "construct"]
    /\ UNCHANGED <<qa, bot, crew1, proc, tmpl, cli, conc, load>>

\* line 91: HypnoBot() returns and bot is assigned
InitBotConstructs(t) ==
    /\ api.thread[t] = "construct"
    /\ api' = [api EXCEPT !.thread[t] = "finally",
                          !.constructions = @ + 1,
                          !.assignments = @ + 1,
                          !.bot = "set"]
    /\ UNCHANGED <<qa, bot, crew1, proc, tmpl, cli, conc, load>>

\* line 91 raises: lines 93-96
InitBotConstructRaises(t) ==
    /\ api.thread[t] = "construct"
    /\ \E e \in BackendErrors :
          api' = [api EXCEPT !.thread[t] = "finally",
                             !.constructions = @ + 1,
                             !.initialization_error = e]
    /\ UNCHANGED <<qa, bot, crew1, proc, tmpl, cli, conc, load>>

\* lines 97-99
InitBotFinally(t) ==
    /\ api.thread[t] = "finally"
    /\ api' = [api EXCEPT !.thread[t] = "done", !.is_initializing = FALSE]
    /\ UNCHANGED <<qa, bot, crew1, proc, tmpl, cli, conc, load>>

\* a POST /api/chat arrives at the imported module; HypnoBotRequest (lines
\* 53-60) strips the input and answers 422 to an input of whitespace
ChatArrives ==
    /\ api.imported \/ api.initialization_error # ""
    /\ api.req.pc \in {"idle", "done"}
    /\ api.served < MaxRequests
    /\ \E body \in RequestBodies :
          api' = [api EXCEPT
              !.served = @ + 1,
              !.req = IF Strip(body) = <<>>
                      THEN [NoRequest EXCEPT !.pc = "done", !.status = 422]
                      ELSE [NoRequest EXCEPT !.pc = "check_error",
                                             !.user_input = Strip(body)]]
    /\ UNCHANGED <<qa, bot, crew1, proc, tmpl, cli, conc, load>>

\* lines 157-161
ChatCheckError ==
    /\ api.req.pc = "check_error"
    /\ api' = [api EXCEPT
          !.req = IF api.initialization_error # ""
                  THEN [@ EXCEPT !.pc = "done", !.status = 500,
                                 !.detail = "HypnoBot initialization failed",
                                 !.bot_seen = (api.bot # "None")]
                  ELSE [@ EXCEPT !.pc = "check_bot"]]
    /\ UNCHANGED <<qa, bot, crew1, proc, tmpl, cli, conc, load>>

\* lines 164-172
ChatCheckBot ==
    /\ api.req.pc = "check_bot"
    /\ IF api.bot = "None"
       THEN api' = [api EXCEPT
                !.thread = IF ~api.is_initializing /\ api.imported
                           THEN Spawn(@) ELSE @,
                !.req = [@ EXCEPT !.pc = "done", !.status = 503,
                                  !.detail = "HypnoBot is still initializing"]]
       ELSE api' = [api EXCEPT !.req = [@ EXCEPT !.pc = "process",
                                                 !.bot_seen = TRUE]]
    /\ UNCHANGED <<qa, bot, crew1, proc, tmpl, cli, conc, load>>

\* lines 184-187: process_input returns; HypnoBotResponse(response=...)
\* takes a str and raises a validation error on anything else (188-191)
ChatProcessReturns ==
    /\ api.req.pc = "process"
    /\ \E r \in ProcessInputValues :
          api' = [api EXCEPT
              !.executed_with = @ \cup {api.key},
              !.req = [@ EXCEPT
                  !.pc = "done",
                  !.calls = Append(@, api.req.user_input),
                  !.returned = r,
                  !.status = IF r.kind = "str" THEN 200 ELSE 500,
                  !.response = IF r.kind = "str" THEN r ELSE @,
                  !.detail = IF r.kind = "str" THEN @
                             ELSE "validation error"]]
    /\ UNCHANGED <<qa, bot, crew1, proc, tmpl, cli, conc, load>>

\* line 184 raises: lines 188-191
ChatProcessRaises ==
    /\ api.req.pc = "process"
    /\ \E e \in BackendErrors :
          api' = [api EXCEPT
              !.executed_with = @ \cup {api.key},
              !.req = [@ EXCEPT !.pc = "done",
                                !.calls = Append(@, api.req.user_input),
                                !.raised = e,
                                !.status = 500, !.detail = e]]
    /\ UNCHANGED <<qa, bot, crew1, proc, tmpl, cli, conc, load>>

\* lines 193-218: the status GET /api/health answers in the state of the
\* module; the handler changes nothing
health_check(module) ==
    IF module.initialization_error # "" THEN "error"
    ELSE IF module.bot = "None"
         THEN (IF module.imported THEN "initializing" ELSE "failed")
    ELSE "healthy"

NextApi ==
    \/ \E t \in InitThreads :
          \/ InitBotEnter(t)
          \/ InitBotCheckKey(t)
          \/ InitBotConstructs(t)
          \/ InitBotConstructRaises(t)
          \/ InitBotFinally(t)
    \/ ChatArrives
    \/ ChatCheckError
    \/ ChatCheckBot
    \/ ChatProcessReturns
    \/ ChatProcessRaises

(***************************************************************************)
(* run_cli.py: main.                                                        *)
(***************************************************************************)
\* the lines a user types
CliLines == {"hello", "exit", "Quit", "exit now"}

\* str.lower() of a line
LowerLine(line) == IF line = "Quit" THEN "quit" ELSE line

\* a loop that only knows the command as it is spelled in the banner
IsExitCommandExact(line) == line = "exit"

\* line 75
IsExitCommand(line) == LowerLine(line) \in {"exit", "quit", "bye"}

RECURSIVE LineSeqsOf(_)
LineSeqsOf(n) ==
    IF n = 0 THEN {<<>>}
    ELSE LET shorter == LineSeqsOf(n - 1)
         IN  shorter \cup {Append(s, l) : s \in shorter, l \in CliLines}

\* what stdin holds; input() raises EOFError at its end
StdinContents == LineSeqsOf(MaxLines)

CliIdle ==
    [pc |-> "idle", key |-> "unset", single |-> "", stdin |-> <<>>,
     read |-> 0, calls |-> <<>>, printed |-> <<>>, ret |-> -1,
     constructions |-> 0, executed_with |-> {}]

\* lines 38-42
CliCheckKey ==
    /\ cli.pc = "check_key"
    /\ cli' = IF KeyMissing(cli.key)
              THEN [cli EXCEPT !.pc = "done", !.ret = 1,
                               !.printed = Append(@, "no api key")]
              ELSE [cli EXCEPT !.pc = "construct"]
    /\ UNCHANGED <<qa, bot, crew1, proc, tmpl, api, conc, load>>

\* line 46: HypnoBot(model_name=args.model) returns
CliConstructs ==
    /\ cli.pc = "construct"
    /\ cli' = [cli EXCEPT !.constructions = @ + 1,
                          !.pc = IF cli.single # "" THEN "single"
                                 ELSE "input"]
    /\ UNCHANGED <<qa, bot, crew1, proc, tmpl, api, conc, load>>

\* line 46 raises: lines 91-102
CliConstructRaises ==
    /\ cli.pc = "construct"
    /\ cli' = [cli EXCEPT !.constructions = @ + 1,
                          !.pc = "done", !.ret = 1,
                          !.printed = Append(@, "error initializing bot")]
    /\ UNCHANGED <<qa, bot, crew1, proc, tmpl, api, conc, load>>

\* lines 54-58
CliSingleReturns ==
    /\ cli.pc = "single"
    /\ cli' = [cli EXCEPT !.pc = "done", !.ret = 0,
                          !.calls = Append(@, cli.single),
                          !.executed_with = @ \cup {cli.key},
                          !.printed = Append(@, "response")]
    /\ UNCHANGED <<qa, bot, crew1, proc, tmpl, api, conc, load>>

\* line 56 raises: lines 59-63
CliSingleRaises ==
    /\ cli.pc = "single"
    /\ cli' = [cli EXCEPT !.pc = "done", !.ret = 1,
                          !.calls = Append(@, cli.single),
                          !.executed_with = @ \cup {cli.key},
                          !.printed = Append(@, "error")]
    /\ UNCHANGED <<qa, bot, crew1, proc, tmpl, api, conc, load>>

\* lines 72-77: a line is read; an exit command ends the loop (line 89);
\* at the end of stdin the EOFError of input() goes to lines 91-102
CliInput ==
    /\ cli.pc = "input"
    /\ cli' =
        IF cli.read = Len(cli.stdin)
        THEN [cli EXCEPT !.pc = "done", !.ret = 1,
                         !.printed = Append(@, "error initializing bot")]
        ELSE IF IsExitCommand(cli.stdin[cli.read + 1])
        THEN [cli EXCEPT !.pc = "done", !.ret = 0, !.read = @ + 1,
                         !.printed = Append(@, "goodbye")]
        ELSE [cli EXCEPT !.pc = "process", !.read = @ + 1]
    /\ UNCHANGED <<qa, bot, crew1, proc, tmpl, api, conc, load>>

\* lines 81-82
CliProcessReturns ==
    /\ cli.pc = "process"
    /\ cli' = [cli EXCEPT !.pc = "input",
                          !.calls = Append(@, cli.stdin[cli.read]),
                          !.executed_with = @ \cup {cli.key},
                          !.printed = Append(@, "response")]
    /\ UNCHANGED <<qa, bot, crew1, proc, tmpl, api, conc, load>>

\* line 81 raises: lines 83-87
CliProcessRaises ==
    /\ cli.pc = "process"
    /\ cli' = [cli EXCEPT !.pc = "input",
                          !.calls = Append(@, cli.stdin[cli.read]),
                          !.executed_with = @ \cup {cli.key},
                          !.printed = @ \o <<"error", "apology">>]
    /\ UNCHANGED <<qa, bot, crew1, proc, tmpl, api, conc, load>>

NextCli ==
    \/ CliCheckKey
    \/ CliConstructs
    \/ CliConstructRaises
    \/ CliSingleReturns
    \/ CliSingleRaises
    \/ CliInput
    \/ CliProcessReturns
    \/ CliProcessRaises

(***************************************************************************)
(* Calls of HypnoCrew.process_message interleaved on one HypnoCrew: the     *)
(* crew object of __init__, and with it crew.tasks, is the same for all.    *)
(***************************************************************************)
Callers == 1..MaxCallers

UserMessages == {"hi", "help"}

NoCrewTask == [kind |-> "none", of |-> 0, text |-> ""]

\* the output of a kickoff: that of the last task of crew.tasks
NoOutput == [kind |-> "none", of |-> 0, text |-> ""]

OutputOf(tasks) ==
    IF tasks = <<>> THEN NoOutput
    ELSE [kind |-> tasks[Len(tasks)].kind, of |-> tasks[Len(tasks)].of,
          text |-> tasks[Len(tasks)].text]

NoCall ==
    [pc |-> "idle", user_message |-> "", chat_result |-> NoOutput,
     review_result |-> NoOutput, ran |-> <<>>,
     original_response |-> NoOutput, final_response |-> NoOutput]

ConcIdle == [crew_tasks |-> <<>>, call |-> [c \in Callers |-> NoCall]]

\* hypno_crew.py 65-71: the chat task of this message replaces crew.tasks
SharedSetChat(c) ==
    /\ conc.call[c].pc = "start"
    /\ conc' = [conc EXCEPT
          !.crew_tasks = <<[kind |-> "chat", of |-> c,
                            text |-> conc.call[c].user_message]>>,
          !.call[c].pc = "chat_kickoff"]
    /\ UNCHANGED <<qa, bot, crew1, proc, tmpl, api, cli, load>>

\* hypno_crew.py 72: the crew runs the tasks it holds now
SharedChatKickoff(c) ==
    /\ conc.call[c].pc = "chat_kickoff"
    /\ conc' = [conc EXCEPT
          !.call[c].pc = "set_review",
          !.call[c].ran = @ \o conc.crew_tasks,
          !.call[c].chat_result = OutputOf(conc.crew_tasks)]
    /\ UNCHANGED <<qa, bot, crew1, proc, tmpl, api, cli, load>>

\* hypno_crew.py 77-80: the review task of this chat result replaces
\* crew.tasks
SharedSetReview(c) ==
    /\ conc.call[c].pc = "set_review"
    /\ conc' = [conc EXCEPT
          !.crew_tasks = <<[kind |-> "review", of |-> c,
                            text |-> conc.call[c].chat_result.text]>>,
          !.call[c].pc = "review_kickoff"]
    /\ UNCHANGED <<qa, bot, crew1, proc, tmpl, api, cli, load>>

\* hypno_crew.py 81-102: the crew runs the tasks it holds now, and the
\* result is built from the two outputs
SharedReviewKickoff(c) ==
    /\ conc.call[c].pc = "review_kickoff"
    /\ conc' = [conc EXCEPT
          !.call[c].pc = "done",
          !.call[c].ran = @ \o conc.crew_tasks,
          !.call[c].review_result = OutputOf(conc.crew_tasks),
          !.call[c].original_response = conc.call[c].chat_result,
          !.call[c].final_response = OutputOf(conc.crew_tasks)]
    /\ UNCHANGED <<qa, bot, crew1, proc, tmpl, api, cli, load>>

NextShared ==
    \E c \in Callers :
        \/ SharedSetChat(c)
        \/ SharedChatKickoff(c)
        \/ SharedSetReview(c)
        \/ SharedReviewKickoff(c)

(***************************************************************************)
(* load_tasks of hypnobot/loader.py and of hypnobot/config/loader.py: the   *)
(* tasks built from tasks.yaml for a dict of loaded agents.                 *)
(***************************************************************************)
TaskNames == {"categorization", "chat", "review"}

\* the agents that load_agents created
LoadedAgents == {"hypnotherapist", "qa"}

\* the 'agent' entry of a task: a loaded agent, an unknown one, or no entry
AgentEntries == {"hypnotherapist", "ghost", "absent"}

\* tasks.yaml: task entries in file order, no name twice
RawTasksOf(n) ==
    UNION {{t \in [1..k -> [name : TaskNames, agent : AgentEntries]] :
               \A i, j \in 1..k : i # j => t[i].name # t[j].name} : k \in 0..n}

RawTasks == RawTasksOf(MaxTasks)

\* agent_task_map: None, or a dict with one entry
NoTaskMap == [given |-> FALSE, task |-> "", agent |-> ""]

AgentTaskMaps ==
    {NoTaskMap}
    \cup [given : {TRUE}, task : {"chat"}, agent : {"hypnotherapist", "ghost"}]

BuiltTask(name, agent) == [name |-> name, agent |-> agent]

\* hypnobot/loader.py lines 30-48: ValueError at the first task whose agent
\* is not a key of agents (agents.get(None) is None as well)
RECURSIVE LoadFrom(_, _, _)
LoadFrom(agents, raw_tasks, tasks) ==
    IF raw_tasks = <<>> THEN [raised |-> "none", tasks |-> tasks]
    ELSE LET config == Head(raw_tasks)
         IN  IF config.agent \notin agents
             THEN [raised |-> "ValueError", tasks |-> <<>>]
             ELSE LoadFrom(agents, Tail(raw_tasks),
                           Append(tasks, BuiltTask(config.name, config.agent)))

load_tasks(agents, raw_tasks) == LoadFrom(agents, raw_tasks, <<>>)

\* config/loader.py lines 66-75: the agent of the YAML entry when it is
\* loaded, else the agent the map gives when that one is loaded, else None
AssignedAgent(spec, agents, agent_task_map) ==
    IF spec.agent # "absent" /\ spec.agent \in agents THEN spec.agent
    ELSE IF agent_task_map.given /\ spec.name = agent_task_map.task
            /\ agent_task_map.agent \in agents
         THEN agent_task_map.agent
    ELSE "None"

\* config/loader.py lines 64-87: a task without an agent is skipped
RECURSIVE ConfigLoadFrom(_, _, _, _)
ConfigLoadFrom(data, agents, agent_task_map, tasks) ==
    IF data = <<>> THEN [raised |-> "none", tasks |-> tasks]
    ELSE LET spec == Head(data)
             agent == AssignedAgent(spec, agents, agent_task_map)
         IN  ConfigLoadFrom(Tail(data), agents, agent_task_map,
                 IF agent = "None" THEN tasks
                 ELSE Append(tasks, BuiltTask(spec.name, agent)))

config_load_tasks(data, agents, agent_task_map) ==
    ConfigLoadFrom(data, agents, agent_task_map, <<>>)

LoadIdle ==
    [pc |-> "idle", raw_tasks |-> <<>>, agent_task_map |-> NoTaskMap,
     loader |-> "none", raised |-> "none", tasks |-> <<>>]

\* a call of hypnobot/loader.py load_tasks
LoadTasks ==
    /\ load.pc = "start"
    /\ load.agent_task_map = NoTaskMap
    /\ LET made == load_tasks(LoadedAgents, load.raw_tasks)
       IN  load' = [load EXCEPT !.pc = "done", !.loader = "loader",
                                !.raised = made.raised, !.tasks = made.tasks]
    /\ UNCHANGED <<qa, bot, crew1, proc, tmpl, api, cli, conc>>

\* a call of hypnobot/config/loader.py load_tasks
ConfigLoadTasks ==
    /\ load.pc = "start"
    /\ LET made == config_load_tasks(load.raw_tasks, LoadedAgents,
                                     load.agent_task_map)
       IN  load' = [load EXCEPT !.pc = "done", !.loader = "config_loader",
                                !.raised = made.raised, !.tasks = made.tasks]
    /\ UNCHANGED <<qa, bot, crew1, proc, tmpl, api, cli, conc>>

NextLoad == LoadTasks \/ ConfigLoadTasks

(***************************************************************************)
(* Specifications: one per entry point, the other components idle.          *)
(***************************************************************************)
InitParse ==
    /\ qa \in [pc : {"call"}, review_text : ReviewInputs,
               result : {DefaultReview}, raised : {FALSE}]
    /\ bot = BotIdle
    /\ crew1 = Crew1Idle
    /\ proc = ProcIdle
    /\ tmpl = TmplIdle
    /\ api = ApiIdle
    /\ cli = CliIdle
    /\ conc = ConcIdle
    /\ load = LoadIdle

NextParse == ParseQaReview

SpecParse == InitParse /\ [][NextParse]_vars

InitV2 ==
    /\ \E n \in InputLengths :
          bot = [BotIdle EXCEPT !.pc = "start", !.variant = "v2",
                                !.original_length = n,
                                !.user_input = [len |-> n, ellipsis |-> FALSE]]
    /\ qa = QaIdle
    /\ crew1 = Crew1Idle
    /\ proc = ProcIdle
    /\ tmpl = TmplIdle
    /\ api = ApiIdle
    /\ cli = CliIdle
    /\ conc = ConcIdle
    /\ load = LoadIdle

NextV2 ==
    \/ V2Truncate
    \/ V2CategorizeReturns
    \/ V2CategorizeRaises
    \/ V2ParseCategorization
    \/ V2KickoffReturns
    \/ V2KickoffRaises

SpecV2 == InitV2 /\ [][NextV2]_vars

InitCrew1 ==
    /\ \E inquiry \in InquiryConfigs, review \in ReviewConfigs,
          model \in AgentModels :
          crew1 = [Crew1Idle EXCEPT
                      !.pc = "start",
                      !.tasks_config = [hypnotherapy_inquiry |-> inquiry,
                                        safety_review |-> review],
                      !.inquiry_model = model]
    /\ qa = QaIdle
    /\ bot = BotIdle
    /\ proc = ProcIdle
    /\ tmpl = TmplIdle
    /\ api = ApiIdle
    /\ cli = CliIdle
    /\ conc = ConcIdle
    /\ load = LoadIdle

\* main.process_message(message, use_process), or process_message of a
\* HypnoChatProcess or a HypnoCrew that exists
InitProc ==
    /\ \E entry \in {"main", "HypnoChatProcess", "HypnoCrew"},
          processor \in {"HypnoChatProcess", "HypnoCrew"},
          ok \in BOOLEAN :
          /\ entry # "main" => processor = entry
          /\ proc = [ProcIdle EXCEPT
                        !.pc = IF entry = "main" THEN "construct"
                               ELSE "chat_task",
                        !.entry = entry,
                        !.processor = processor,
                        !.chat_config_ok = ok]
    /\ qa = QaIdle
    /\ bot = BotIdle
    /\ crew1 = Crew1Idle
    /\ tmpl = TmplIdle
    /\ api = ApiIdle
    /\ cli = CliIdle
    /\ conc = ConcIdle
    /\ load = LoadIdle

\* one call of one of the process_message implementations
InitMessage == InitCrew1 \/ InitProc

NextMessage == NextCrew1 \/ NextProc

SpecMessage == InitMessage /\ [][NextMessage]_vars

InitTemplate ==
    /\ tmpl \in [pc : {"call"},
                 renderer : {"format_task_template", "build_task"},
                 template : Templates, inputs : InputDicts,
                 rendered : {<<>>}, raised : {"none"}]
    /\ qa = QaIdle
    /\ bot = BotIdle
    /\ crew1 = Crew1Idle
    /\ proc = ProcIdle
    /\ api = ApiIdle
    /\ cli = CliIdle
    /\ conc = ConcIdle
    /\ load = LoadIdle

NextTemplate == FormatTaskTemplate \/ BuildTask

SpecTemplate == InitTemplate /\ [][NextTemplate]_vars

\* process_input of the variant built from the YAML configuration: there is
\* no truncation and no categorization before the crew
InitConfig ==
    /\ \E n \in InputLengths :
          bot = [BotIdle EXCEPT !.pc = "cfg_kickoff", !.variant = "config",
                                !.original_length = n,
                                !.user_input = [len |-> n, ellipsis |-> FALSE]]
    /\ qa = QaIdle
    /\ crew1 = Crew1Idle
    /\ proc = ProcIdle
    /\ tmpl = TmplIdle
    /\ api = ApiIdle
    /\ cli = CliIdle
    /\ conc = ConcIdle
    /\ load = LoadIdle

\* one call of HypnoBot.process_input, of either variant
InitInput == InitV2 \/ InitConfig

NextInput == NextV2 \/ CfgKickoffReturns \/ CfgKickoffRaises

SpecInput == InitInput /\ [][NextInput]_vars

\* the API module after its import (lines 33-50, 66-69, 101-105): with the
\* HypnoBot class imported the first init_bot thread is started, without it
\* the error is recorded
InitApi ==
    /\ \E key \in KeyValues, imported \in BOOLEAN :
          api = [ApiIdle EXCEPT
                    !.key = key,
                    !.imported = imported,
                    !.thread = IF imported THEN Spawn(@) ELSE @,
                    !.initialization_error =
                        IF imported THEN ""
                        ELSE "HypnoBot class could not be imported"]
    /\ qa = QaIdle
    /\ bot = BotIdle
    /\ crew1 = Crew1Idle
    /\ proc = ProcIdle
    /\ tmpl = TmplIdle
    /\ cli = CliIdle
    /\ conc = ConcIdle
    /\ load = LoadIdle

SpecApi == InitApi /\ [][NextApi]_vars

\* run_cli.main() is called: the environment, --single and what stdin holds
InitCli ==
    /\ \E key \in KeyValues, single \in {"", "hello"},
          stdin \in StdinContents :
          cli = [CliIdle EXCEPT !.pc = "check_key", !.key = key,
                                !.single = single, !.stdin = stdin]
    /\ qa = QaIdle
    /\ bot = BotIdle
    /\ crew1 = Crew1Idle
    /\ proc = ProcIdle
    /\ tmpl = TmplIdle
    /\ api = ApiIdle
    /\ conc = ConcIdle
    /\ load = LoadIdle

SpecCli == InitCli /\ [][NextCli]_vars

\* the entry points: the API module, or run_cli.main
InitEntry == InitApi \/ InitCli

NextEntry == NextApi \/ NextCli

SpecEntry == InitEntry /\ [][NextEntry]_vars

\* process_message is called on one HypnoCrew by each of the callers
InitShared ==
    /\ \E messages \in [Callers -> UserMessages] :
          conc = [ConcIdle EXCEPT
                     !.call = [c \in Callers |->
                                  [NoCall EXCEPT
                                      !.pc = "start",
                                      !.user_message = messages[c]]]]
    /\ qa = QaIdle
    /\ bot = BotIdle
    /\ crew1 = Crew1Idle
    /\ proc = ProcIdle
    /\ tmpl = TmplIdle
    /\ api = ApiIdle
    /\ cli = CliIdle
    /\ load = LoadIdle

SpecShared == InitShared /\ [][NextShared]_vars

\* the loaders of the YAML configuration, and the task building of
\* HypnoBot1Crew
InitLoad ==
    /\ \E raw_tasks \in RawTasks, agent_task_map \in AgentTaskMaps :
          load = [LoadIdle EXCEPT !.pc = "start", !.raw_tasks = raw_tasks,
                                  !.agent_task_map = agent_task_map]
    /\ qa = QaIdle
    /\ bot = BotIdle
    /\ crew1 = Crew1Idle
    /\ proc = ProcIdle
    /\ tmpl = TmplIdle
    /\ api = ApiIdle
    /\ cli = CliIdle
    /\ conc = ConcIdle

InitBuild == InitLoad \/ InitCrew1

NextBuild == NextLoad \/ NextCrew1

SpecBuild == InitBuild /\ [][NextBuild]_vars

(***************************************************************************)
(* Claims                                                                   *)
(***************************************************************************)
\* the text the parser works on, for the inputs that have one
ReviewSource == qa.review_text.text

HasToken(text, t) == \E p \in 1..Len(text) : text[p] = t

\* C1 For every review text the parser returns a safety_level in {0,1,2,3,4}:
\* a digit 5-9 after "Safety Level Assessment:" or "Safety Level:" is not
\* returned as it stands.
SafetyLevelInRange ==
    qa.pc = "return" => qa.result.safety_level \in 0..4

\* C8 The single-line review of the scenario parses to the quoted response,
\* safety level 0 and modifications "none": the modifications end at the
\* "Reasoning:" header.
SingleLineReviewParsed ==
    (qa.pc = "return" /\ qa.review_text.kind = "str"
        /\ ReviewSource = ScenarioReview)
    => /\ qa.result.modified_response = <<"R1">>
       /\ qa.result.safety_level = 0
       /\ qa.result.modifications = <<"none">>

\* C9 On the empty string and on None the parser returns exactly the default
\* record: modified_response "", safety_level 0, modifications "", reasoning "".
EmptyInputGivesDefaults ==
    (qa.pc = "return"
        /\ \/ qa.review_text.kind = "None"
           \/ (qa.review_text.kind = "str" /\ ReviewSource = <<>>))
    => qa.result = [modified_response |-> <<>>, safety_level |-> 0,
                    modifications |-> <<>>, reasoning |-> <<>>]

EmptyInputParsed ==
    /\ qa.pc = "return"
    /\ qa.review_text.kind = "None"

\* C10 The parser never raises: for every input it returns a record with the
\* four fields, and a field no rule matched keeps its default (no
\* "Safety Level" in the text: 0; no "Modifications": ""; no "Reasoning": "";
\* nothing but white space, or no text at all: "").
ParserNeverRaises ==
    qa.pc = "return"
    => /\ ~qa.raised
       /\ DOMAIN qa.result =
            {"modified_response", "safety_level", "modifications", "reasoning"}
       /\ qa.review_text.kind \in {"None", "unprintable"}
            => qa.result = DefaultReview
       /\ qa.review_text.kind \notin {"None", "unprintable"}
            => /\ ~HasToken(ReviewSource, "Safety Level")
                    => qa.result.safety_level = 0
               /\ ~HasToken(ReviewSource, "Modifications")
                    => qa.result.modifications = <<>>
               /\ ~HasToken(ReviewSource, "Reasoning")
                    => qa.result.reasoning = <<>>
               /\ (\A p \in 1..Len(ReviewSource) : IsSpace(ReviewSource[p]))
                    => qa.result.modified_response = <<>>

UnprintableObjectParsed ==
    /\ qa.pc = "return"
    /\ qa.review_text.kind = "unprintable"

\* the first line of the categorization output, as the categorizer wrote it
CatFirstLine ==
    LET t == bot.categorization_result.text
        first == CHOOSE i \in 1..(Len(t) + 1) :
                    /\ (i = Len(t) + 1 \/ ~IsSpace(t[i]))
                    /\ \A k \in 1..(i - 1) : IsSpace(t[k])
        stop == CHOOSE j \in first..(Len(t) + 1) :
                    /\ (j = Len(t) + 1 \/ t[j] = NL)
                    /\ \A k \in first..(j - 1) : t[k] # NL
    IN  SubSeq(t, first, stop - 1)

\* C2 A categorization whose first line starts with INAPPROPRIATE is parsed
\* as not appropriate, one whose first line is APPROPRIATE as appropriate.
CategorizationExact ==
    bot.parsed
    => /\ MatchLit(CatFirstLine, 1, <<"IN", "APPROPRIATE">>)
            => ~bot.is_appropriate
       /\ CatFirstLine = <<"APPROPRIATE">> => bot.is_appropriate

\* C3 The crew is kicked off only after the categorization task returned and
\* its parsed result is approved; a request whose label is rejected, or whose
\* categorization raised, ends with no kickoff.
GateBeforeChain ==
    /\ bot.kickoffs > 0
        => bot.cat_state = "returned" /\ bot.parsed /\ bot.is_appropriate
    /\ (bot.pc = "done"
            /\ (bot.cat_state = "raised" \/ (bot.parsed /\ ~bot.is_appropriate)))
        => bot.kickoffs = 0

RejectedWithoutKickoff ==
    /\ bot.pc = "done"
    /\ bot.parsed
    /\ ~bot.is_appropriate
    /\ bot.reply.kind = "refusal"
    /\ bot.kickoffs = 0

\* C4 When the categorizer answers "INAPPROPRIATE: <reason>" the request ends
\* with a refusal that carries the category and explanation, and the crew is
\* never kicked off.
InappropriateRefused ==
    (bot.pc = "done" /\ bot.categorization_result.kind = "str"
        /\ bot.categorization_result.text
            = <<"IN", "APPROPRIATE", COLON, WS, "violence">>)
    => /\ bot.reply.kind = "refusal"
       /\ bot.reply.category = <<"IN", "APPROPRIATE", COLON, WS, "VIOLENCE">>
       /\ bot.kickoffs = 0

UniformProcessFallback ==
    (proc.pc = "done" /\ proc.processor = "HypnoChatProcess"
        /\ proc.raised_at # "construct"
        /\ (proc.raised_at # "none" \/ Strip(proc.chat_result.text) = <<>>))
    => /\ proc.result.safety_level = 2
       /\ proc.result.final_response.text # <<>>
       /\ "error" \in proc.result.metadata.keys

UnknownPlaceholders ==
    {k \in FieldNames \ KeysOf(tmpl.inputs) :
        HasLit(tmpl.template, Placeholder(k))}

\* C11 Rendering a description whose template has a placeholder that is not
\* in the substitution context raises to the caller, and no rendered
\* description comes out of it.
UnresolvedPlaceholderFailsFast ==
    (tmpl.pc = "return" /\ UnknownPlaceholders # {})
    => (tmpl.raised # "none" /\ tmpl.rendered = <<>>)

\* every "{key}" of the text, for the keys of inputs, replaced at once by
\* the value of the key; the values are not searched
RECURSIVE SubstituteAll(_, _)
SubstituteAll(text, inputs) ==
    IF text = <<>> THEN <<>>
    ELSE IF \E k \in KeysOf(inputs) : MatchLit(text, 1, Placeholder(k))
         THEN ValueOf(inputs, text[2])
                  \o SubstituteAll(SubSeq(text, 4, Len(text)), inputs)
         ELSE <<text[1]>> \o SubstituteAll(Tail(text), inputs)

\* C12 format_task_template(template, inputs) is the simultaneous
\* substitution of the placeholders of the template by the values of
\* inputs: text that a value brings in is never replaced in its turn.
SubstitutionIsSimultaneous ==
    (tmpl.pc = "return" /\ tmpl.renderer = "format_task_template")
    => tmpl.rendered = SubstituteAll(tmpl.template, tmpl.inputs)

\* C13 A request that is not over the length limit and whose crew kickoff
\* returned (in v2: after an approved categorization) gets exactly the value
\* the kickoff returned; the kickoff was made once, with the user's text
\* under the key user_input.
KickoffValueReturned ==
    (bot.pc = "done" /\ bot.kickoff_state = "returned"
        /\ bot.original_length <= MAX_CHARS)
    => /\ bot.reply.kind = "result"
       /\ bot.reply.result = bot.kickoff_result
       /\ ~bot.reply.note
       /\ bot.kickoffs = 1
       /\ bot.kickoff_inputs.key = "user_input"
       /\ bot.kickoff_inputs.value =
            [len |-> bot.original_length, ellipsis |-> FALSE]
       /\ bot.variant = "v2" => (bot.parsed /\ bot.is_appropriate)

ObjectResultReturned ==
    /\ bot.pc = "done"
    /\ bot.kickoff_state = "returned"
    /\ bot.original_length <= MAX_CHARS
    /\ bot.kickoff_result.kind = "object"
    /\ bot.reply.kind = "result"

\* C14 The text a failed request shows to the user is one fixed apology: it
\* carries nothing of the exception, so two requests that fail with
\* different exceptions show the same text.
FailureTextIsFixed ==
    (bot.pc = "done" /\ bot.reply.kind = "error")
    => bot.reply = [NoReply EXCEPT !.kind = "error"]

EachTaskRunsOnce ==
    /\ bot.cat_executions <= 1
    /\ crew1.inquiry_runs <= 1

\* C16 With OPENAI_API_KEY unset, empty or left at a placeholder value, the
\* entry points (the API's init_bot, run_cli.main) construct no bot and no
\* task is executed with that credential.
BadKeyFailsBeforeBot ==
    /\ api.key # "valid" => (api.constructions = 0 /\ api.executed_with = {})
    /\ cli.key # "valid" => (cli.constructions = 0 /\ cli.executed_with = {})

\* C19 A POST /api/chat that finds the bot object set calls
\* bot.process_input once, with the stripped input, and answers 200 with the
\* value it returned; when process_input raised it answers 500 with the
\* message of the exception as detail.
ChatAnswersFromBot ==
    (api.req.pc = "done" /\ api.req.bot_seen)
    => /\ api.req.calls = <<api.req.user_input>>
       /\ api.req.returned.kind # "unset"
            => (api.req.status = 200 /\ api.req.response = api.req.returned)
       /\ api.req.raised # ""
            => (api.req.status = 500 /\ api.req.detail = api.req.raised)

\* the lines of stdin that are an exit command, in any case of letters
ExitPositions ==
    {i \in 1..Len(cli.stdin) : cli.stdin[i] \in {"exit", "Quit"}}

\* C20 In the interactive mode of run_cli, process_input is called once for
\* each line before the first exit command, in the order of the lines; an
\* exception of process_input is reported, followed by the apology, and the
\* next line is read; main returns 0 at the first exit command.
InteractiveLoopInOrder ==
    (cli.single = "" /\ cli.read > 0)
    => /\ cli.pc = "input" => cli.calls = SubSeq(cli.stdin, 1, cli.read)
       /\ \A i \in 1..Len(cli.printed) :
            cli.printed[i] = "error"
                => (i < Len(cli.printed) /\ cli.printed[i + 1] = "apology")
       /\ (cli.pc = "done" /\ ExitPositions # {})
            => /\ cli.ret = 0
               /\ cli.read = Min(ExitPositions)
               /\ cli.calls = SubSeq(cli.stdin, 1, Min(ExitPositions) - 1)

LoopSurvivedAnError ==
    /\ cli.pc = "done"
    /\ cli.single = ""
    /\ cli.ret = 0
    /\ Len(cli.calls) = 2
    /\ cli.printed = <<"error", "apology", "response", "goodbye">>

\* C17 Calls interleaved on one bot share no mutable state: every kickoff
\* made for a call runs only tasks created from that call's own message,
\* and the call's result is built from its own outputs.
CallsShareNoState ==
    \A c \in Callers :
        /\ \A i \in 1..Len(conc.call[c].ran) : conc.call[c].ran[i].of = c
        /\ conc.call[c].pc = "done"
            => /\ conc.call[c].original_response.of = c
               /\ conc.call[c].original_response.kind = "chat"
               /\ conc.call[c].final_response.of = c
               /\ conc.call[c].final_response.kind = "review"

\* C21 Building tasks from the configuration raises whenever a task names an
\* agent that is not among the loaded agents: no loader returns a task set
\* without that task, and no request goes on with the task missing.
MissingAgentFails ==
    /\ (load.pc = "done"
          /\ \E i \in 1..Len(load.raw_tasks) :
                load.raw_tasks[i].agent \notin LoadedAgents \cup {"absent"})
       => load.raised # "none"
    /\ (crew1.pc \in {"inquiry", "create_all", "full", "done"}
          /\ crew1.tasks_config.hypnotherapy_inquiry.present
          /\ ~crew1.tasks_config.hypnotherapy_inquiry.agent_known)
       => crew1.raised_at = "create_tasks"
    /\ (crew1.pc \in {"full", "done"}
          /\ crew1.tasks_config.safety_review.present
          /\ ~crew1.tasks_config.safety_review.agent_known)
       => crew1.raised_at # "none"

\* C22 In HypnoChatProcess.process_message, when the chat task gave a
\* non-empty result and the review task then raises (at its creation or at
\* its kickoff), nothing more is run and the result carries that chat output
\* as original_response and final_response, a safety_level that is not 0,
\* and the failure in metadata.error.
ReviewFailureKeepsChatOutput ==
    (proc.pc = "done" /\ proc.processor = "HypnoChatProcess"
        /\ proc.raised_at \in {"review_task", "review_kickoff"})
    => /\ Strip(proc.chat_result.text) # <<>>
       /\ proc.result.original_response = proc.chat_result
       /\ proc.result.final_response = proc.chat_result
       /\ proc.result.safety_level # 0
       /\ proc.result.metadata.keys = {"error"}
       /\ proc.result.metadata.error # ""
       /\ proc.kickoffs = (IF proc.raised_at = "review_task" THEN 1 ELSE 2)

ProcessReviewFailed ==
    /\ proc.pc = "done"
    /\ proc.processor = "HypnoChatProcess"
    /\ proc.raised_at = "review_kickoff"
    /\ proc.kickoffs = 2
    /\ proc.result.final_response.text = <<"answer">>

\* C23 process_input of the variant built from the YAML configuration kicks
\* the crew off only after the categorization task returned and its label
\* was parsed as approved; on any other label the crew is not kicked off.
CategorizationBeforeConfigCrew ==
    (bot.variant = "config" /\ bot.kickoffs > 0)
    => /\ bot.cat_executions > 0
       /\ bot.cat_state = "returned"
       /\ bot.parsed
       /\ bot.is_appropriate

\* a section header as the specification names it: one of the three header
\* names with its colon, wherever it stands
NamedHeaderAt(text, i) ==
    \/ MatchLit(text, i, LitAssessment)
    \/ MatchLit(text, i, LitModifications)
    \/ MatchLit(text, i, LitReasoning)

TextBeforeFirstHeader(text) ==
    LET heads == {p \in 1..Len(text) : NamedHeaderAt(text, p)}
    IN  IF heads = {} THEN Strip(text)
        ELSE Strip(SubSeq(text, 1, Min(heads) - 1))

\* C24 The modified_response of a parsed review text is the capture of the
\* first of the four patterns, in their fixed order, that matches anywhere in
\* the text, wherever a later pattern matches; when none of the four matches
\* it is the trimmed text before the first section header.
ResponseByPatternPriority ==
    (qa.pc = "return" /\ qa.review_text.kind = "str" /\ ReviewSource # <<>>)
    => LET text == ReviewSource
           response == qa.result.modified_response
           after_review == QuotedAfterMatches(text, LitAfterReview)
           response_is == QuotedAfterMatches(text, LitResponseIs)
           response_colon == QuotedAfterMatches(text, LitResponse)
           assistant == AssistantMatches(text)
       IN  /\ after_review
              => response = QuotedAfterCapture(text, LitAfterReview)
           /\ (~after_review /\ response_is)
              => response = QuotedAfterCapture(text, LitResponseIs)
           /\ (~after_review /\ ~response_is /\ response_colon)
              => response = QuotedAfterCapture(text, LitResponse)
           /\ (~after_review /\ ~response_is /\ ~response_colon /\ assistant)
              => response = AssistantCapture(text)
           /\ (~after_review /\ ~response_is /\ ~response_colon /\ ~assistant)
              => response = TextBeforeFirstHeader(text)

\* C25 In HypnoChatProcess.process_message the review task is created and
\* run only after the chat task returned a text that is not empty and not
\* only whitespace; on an empty chat result there is no second kickoff and
\* the result has original_response "", safety_level 2 and metadata.error
\* "Empty chat result".
ReviewOnlyAfterChatText ==
    proc.processor = "HypnoChatProcess"
    => /\ (\/ proc.pc \in {"review_task", "review_kickoff"}
           \/ proc.raised_at \in {"review_task", "review_kickoff"}
           \/ proc.kickoffs > 1
           \/ "review_result" \in proc.result.metadata.keys)
          => (proc.kickoffs >= 1 /\ Strip(proc.chat_result.text) # <<>>)
       /\ (proc.pc = "done" /\ proc.raised_at = "none"
              /\ Strip(proc.chat_result.text) = <<>>)
          => /\ proc.kickoffs = 1
             /\ proc.result.original_response = StrValue(<<>>)
             /\ proc.result.safety_level = 2
             /\ proc.result.metadata.keys = {"error"}
             /\ proc.result.metadata.error = "Empty chat result"

BlankChatNotReviewed ==
    /\ proc.pc = "done"
    /\ proc.processor = "HypnoChatProcess"
    /\ proc.chat_result.text = <<WS>>
    /\ proc.kickoffs = 1
    /\ proc.result.metadata.error = "Empty chat result"

BotSetExcludesError ==
    /\ ~(api.bot # "None" /\ api.initialization_error # "")
    /\ api.bot # "None" => health_check(api) = "healthy"
    /\ (api.req.pc = "done" /\ api.req.bot_seen)
       => api.req.detail # "HypnoBot initialization failed"

\* the init_bot threads between the first locked block and the last one
Constructing ==
    {t \in InitThreads : api.thread[t] \in {"check_key", "construct", "finally"}}

ErrorIsFinal ==
    [][/\ api.initialization_error # ""
          => /\ api'.initialization_error # ""
             /\ \A t \in InitThreads :
                   api.thread[t] = "unstarted" => api'.thread[t] = "unstarted"
       /\ (api.req.pc = "check_error" /\ api.initialization_error # ""
              /\ api'.req.pc # "check_error")
          => /\ api'.req.pc = "done"
             /\ api'.req.status = 500
             /\ api'.req.calls = <<>>
       /\ (api.req.pc = "check_bot" /\ api.bot = "None"
              /\ api.initialization_error = "" /\ api'.req.pc # "check_bot")
          => /\ api'.req.pc = "done"
             /\ api'.req.status = 503
             /\ api'.req.calls = <<>>]_vars

\* the text the agents are to be given for an input of the given length
PassedOn(length) ==
    IF length > 1500 THEN [len |-> 1500 + 3, ellipsis |-> TRUE]
    ELSE [len |-> length, ellipsis |-> FALSE]

\* C30 v2 process_input passes at most 1503 characters to the agents: the
\* first 1500 characters and "..." for an input longer than 1500 characters,
\* the input itself otherwise; and the truncation note is in the returned
\* text exactly when the input was truncated and the crew ran to completion,
\* never in a refusal or an error reply.
TruncationAndNote ==
    bot.variant = "v2"
    => /\ bot.pc # "start"
          => (bot.user_input = PassedOn(bot.original_length)
                /\ bot.user_input.len <= 1503)
       /\ bot.kickoff_inputs # NoInputs
          => bot.kickoff_inputs.value = PassedOn(bot.original_length)
       /\ bot.reply.kind \in {"refusal", "error"} => ~bot.reply.note
       /\ bot.pc = "done"
          => (bot.reply.note
                <=> (bot.original_length > 1500
                        /\ bot.kickoff_state = "returned"))

====
